---- MODULE Spec2Model ----
(***************************************************************************)
(* A model of mesh_tensorflow/transformer/attention.py:                    *)
(*   - local_attention_1d: block-length search, block partition, halo      *)
(*     exchange, visibility mask, attention bias;                          *)
(*   - AttentionParams: construction and the compute_* accessors.          *)
(*                                                                         *)
(* A tensor over the length axis is a sequence indexed 1..L: position p of *)
(* the program (0-based) is index p + 1.  A blocked tensor is a sequence   *)
(* of blocks, each block a sequence over the block axis.                   *)
(***************************************************************************)
EXTENDS Integers, Sequences, FiniteSets, TLC

(* ------------------------------ bounds --------------------------------- *)
MaxLen == 8
MaxSplits == 3
MaxRadius == 3
MaxSeqLen == 5
MaxPrioLen == 2
MaxSearchLen == 20

(* Values drawn for the entries of sequence-id and priority tensors.       *)
SeqIdValues == {0, 1}
PriorityValues == {0, 1}

(* ---------------------------- state ------------------------------------ *)
VARIABLES
  pc,                    \* position of the call in progress
  length,                \* length_dim.size
  length_dim_num_splits,
  radius,
  fully_autoregressive,
  sequence_id,           \* [kind : "none" | "int" | "tensor", val : Seq(Int)]
  write_priority,        \* [given : BOOLEAN, val : Seq(Int)]
  read_priority,         \* [given : BOOLEAN, val : Seq(Int)]
  attention_kwargs,      \* TRUE iff a mapping was passed (FALSE: None)
  length_per_split,
  block_length,
  num_blocks,
  q_pos, m_pos,
  q_sequence_id, m_sequence_id,
  k,                     \* haloed keys; the key of position p is tagged p + 1
                         \* (v is reshaped like k, or is k when absent)
  padded_memory_block_length,
  visible,
  bias,
  o,                     \* flat output: per position, the memory slots of its
                         \* block that got zero bias
  params,                \* the AttentionParams instance
  last                   \* outcome of the last AttentionParams call

argVars == <<length, length_dim_num_splits, radius, fully_autoregressive,
             sequence_id, write_priority, read_priority, attention_kwargs>>
searchVars == <<length_per_split, block_length, num_blocks>>
tensorVars == <<q_pos, m_pos, q_sequence_id, m_sequence_id, k,
                padded_memory_block_length, visible, bias, o>>
paramVars == <<params, last>>
vars == <<pc, argVars, searchVars, tensorVars, paramVars>>

(* ------------------------- small helpers ------------------------------- *)
Max(a, b) == IF a >= b THEN a ELSE b

Tensors(L, Values) == [1..L -> Values]

(* ----------------------- block-length search --------------------------- *)
\* The default lower limit of the starting candidate (line 431).
MinStartBlock == 128

InitialBlockLength_radius_only(r) == r

\* block_length = max(radius, 128)
InitialBlockLength(r) == Max(r, MinStartBlock)

\* the loop condition  length_per_split % block_length != 0
SearchContinues(lps, bl) == lps % bl # 0

RECURSIVE BlockLengthFrom(_, _)
\* the while loop run to completion from candidate bl
BlockLengthFrom(lps, bl) ==
  IF SearchContinues(lps, bl) THEN BlockLengthFrom(lps, bl - 1) ELSE bl

NumBlocks_per_split(len, lps, bl) == lps \div bl

\* num_blocks = length_dim.size // block_length
NumBlocks(len, lps, bl) == len \div bl

(* ------------------ tensor primitives of the library ------------------- *)
\* mtf.range(mesh, length_dim): the position tensor 0 .. L-1
range(L) == [i \in 1..L |-> i - 1]

\* mtf.zeros(mesh, [length_dim])
zeros(L) == [i \in 1..L |-> 0]

\* replace_dimensions is a reshape: it needs equal element counts
ReshapeOk(x, nb, bl) == Len(x) = nb * bl

\* mtf.replace_dimensions(x, length_dim, [num_blocks, block_length_dim])
replace_dimensions(x, nb, bl) ==
  [b \in 1..nb |-> [i \in 1..bl |-> x[(b - 1) * bl + i]]]

\* mtf.replace_dimensions(o, [num_blocks, query_block_length], length_dim)
merge_dimensions(y, nb, bl) ==
  [p \in 1..(nb * bl) |-> y[((p - 1) \div bl) + 1][((p - 1) % bl) + 1]]

\* mtf.shift(x, offset, blocks_dim, wrap=False): block b receives block
\* b - offset; blocks shifted in from outside the tensor are zeros
shift(x, offset) ==
  [b \in 1..Len(x) |->
     IF (b - offset) \in 1..Len(x) THEN x[b - offset] ELSE zeros(Len(x[b]))]

\* mtf.slice(x, begin, size, block_size_dim.name)
slice(x, begin, size) ==
  [b \in 1..Len(x) |-> SubSeq(x[b], begin + 1, begin + size)]

\* mtf.concat([a, b], block_size_dim.name)
concat(a, b) == [b0 \in 1..Len(a) |-> a[b0] \o b[b0]]

RECURSIVE LeftBlocks(_, _)
\* the parts put to the left of x by the loop over complete blocks:
\* shift(x, n), ..., shift(x, 1), x
LeftBlocks(x, n) ==
  IF n = 0 THEN x ELSE concat(shift(x, n), LeftBlocks(x, n - 1))

RECURSIVE BothBlocks(_, _)
\* shift(x, n), ..., shift(x, 1), x, shift(x, -1), ..., shift(x, -n)
BothBlocks(x, n) ==
  IF n = 0 THEN x
  ELSE concat(concat(shift(x, n), BothBlocks(x, n - 1)), shift(x, 0 - n))

\* mtf.left_halo_exchange(x, blocks_dim, block_size_dim, halo_size)
left_halo_exchange(x, block_size, halo_size) ==
  IF halo_size = 0 THEN x
  ELSE LET partial_size == halo_size % block_size
           num_complete_blocks == halo_size \div block_size
           right_margin == slice(x, block_size - partial_size, partial_size)
           parts == LeftBlocks(x, num_complete_blocks)
       IN  IF partial_size > 0
           THEN concat(shift(right_margin, num_complete_blocks + 1), parts)
           ELSE parts

\* mtf.halo_exchange(x, blocks_dim, block_size_dim, halo_size)
halo_exchange(x, block_size, halo_size) ==
  IF halo_size = 0 THEN x
  ELSE LET partial_size == halo_size % block_size
           num_complete_blocks == halo_size \div block_size
           left_margin == slice(x, 0, partial_size)
           right_margin == slice(x, block_size - partial_size, partial_size)
           parts == BothBlocks(x, num_complete_blocks)
       IN  IF partial_size > 0
           THEN concat(concat(shift(right_margin, num_complete_blocks + 1),
                              parts),
                       shift(left_margin, 0 - (num_complete_blocks + 1)))
           ELSE parts

(* ------------------- local_attention_1d: helpers ----------------------- *)
\* _reshape_query
reshape_query(x, nb, bl) == replace_dimensions(x, nb, bl)

reshape_memory_left_only(x, nb, bl, r, fa) ==
  left_halo_exchange(replace_dimensions(x, nb, bl), bl, r)

\* _reshape_memory
reshape_memory(x, nb, bl, r, fa) ==
  IF fa THEN left_halo_exchange(replace_dimensions(x, nb, bl), bl, r)
  ELSE halo_exchange(replace_dimensions(x, nb, bl), bl, r)

\* sequence_id resolved to a tensor over the length axis (lines 454-458)
ResolveSequenceId(sid, L) ==
  IF sid.kind = "none" THEN [i \in 1..L |-> 1 + zeros(L)[i]]
  ELSE IF sid.kind = "int" THEN [i \in 1..L |-> sid.val[1] + zeros(L)[i]]
  ELSE sid.val

\* (1 if fully_autoregressive else 2) * radius + block_length
PaddedLength(bl, r, fa) == (IF fa THEN 1 ELSE 2) * r + bl

WithinWindow_closed_left(rel, r, fa) ==
  /\ rel >= 0 - r
  /\ rel <= (IF fa THEN 0 ELSE r)

\* greater(relative_position, -radius) and
\* less_equal(relative_position, 0 if fully_autoregressive else radius)
WithinWindow(rel, r, fa) ==
  /\ rel > 0 - r
  /\ rel <= (IF fa THEN 0 ELSE r)

PriorityAllows_strict(rp, wp) == rp > wp

\* greater_equal(read_priority, write_priority)
PriorityAllows(rp, wp) == rp >= wp

\* the large negative value of the bias (line 498)
MaskValue == -1000000000

visibility_mask_to_attention_bias_inverted(v) ==
  (IF v THEN 1 ELSE 0) * MaskValue

\* cast(logical_not(visible), dtype) * -1e9
visibility_mask_to_attention_bias(v) ==
  (IF ~v THEN 1 ELSE 0) * MaskValue

(* ------------------- local_attention_1d: the call ---------------------- *)
NoTensor == <<>>
NoPriority == [given |-> FALSE, val |-> NoTensor]

\* the arguments of one call
ScalarSequenceIdArgs ==
  {[kind |-> "none", val |-> NoTensor]}
    \cup {[kind |-> "int", val |-> <<s>>] : s \in SeqIdValues}

TensorSequenceIdArgs(L) ==
  {[kind |-> "tensor", val |-> t] : t \in Tensors(L, SeqIdValues)}

PriorityArgs(L) ==
  {[given |-> TRUE, val |-> t] : t \in Tensors(L, PriorityValues)}

LocalsInit ==
  /\ length_per_split = 0
  /\ block_length = 0
  /\ num_blocks = 0
  /\ q_pos = NoTensor
  /\ m_pos = NoTensor
  /\ q_sequence_id = NoTensor
  /\ m_sequence_id = NoTensor
  /\ k = NoTensor
  /\ padded_memory_block_length = 0
  /\ visible = NoTensor
  /\ bias = NoTensor
  /\ o = NoTensor

ParamsIdle ==
  /\ params = [constructed |-> FALSE]
  /\ last = [op |-> "none"]

Init ==
  /\ pc = "start"
  /\ length_dim_num_splits \in 1..MaxSplits
  /\ radius \in 0..MaxRadius
  /\ fully_autoregressive \in BOOLEAN
  /\ \/ /\ length \in 1..MaxLen
        /\ sequence_id \in ScalarSequenceIdArgs
        /\ write_priority = NoPriority
        /\ read_priority = NoPriority
        /\ attention_kwargs \in BOOLEAN
     \/ /\ length \in 1..MaxSeqLen
        /\ sequence_id \in TensorSequenceIdArgs(length)
        /\ write_priority = NoPriority
        /\ read_priority = NoPriority
        /\ attention_kwargs \in BOOLEAN
     \/ /\ length \in 1..MaxPrioLen
        /\ sequence_id \in {[kind |-> "none", val |-> NoTensor]}
                              \cup TensorSequenceIdArgs(length)
        /\ write_priority \in PriorityArgs(length) \cup {NoPriority}
        /\ read_priority \in PriorityArgs(length) \cup {NoPriority}
        /\ attention_kwargs = TRUE
  /\ LocalsInit
  /\ ParamsIdle

\* lines 430-438: the block size and the number of blocks
BlockPartition ==
  /\ pc = "start"
  /\ LET lps == length \div length_dim_num_splits
         bl == BlockLengthFrom(lps, InitialBlockLength(radius))
     IN  /\ length_per_split' = lps
         /\ block_length' = bl
         /\ num_blocks' = NumBlocks(length, lps, bl)
  /\ pc' = "partitioned"
  /\ UNCHANGED <<argVars, tensorVars, paramVars>>

\* lines 439-463: q, k, sequence ids and positions in their block views
ReshapeInputs ==
  /\ pc = "partitioned"
  /\ LET pos == range(length)
         sid == ResolveSequenceId(sequence_id, length)
         keys == [i \in 1..length |-> i]
     IN  IF ~ReshapeOk(pos, num_blocks, block_length)
         THEN /\ pc' = "error"
              /\ UNCHANGED tensorVars
         ELSE /\ pc' = "reshaped"
              /\ k' = reshape_memory(keys, num_blocks, block_length, radius,
                                     fully_autoregressive)
              /\ q_sequence_id' = reshape_query(sid, num_blocks, block_length)
              /\ m_sequence_id' = reshape_memory(sid, num_blocks, block_length,
                                                 radius, fully_autoregressive)
              /\ q_pos' = reshape_query(pos, num_blocks, block_length)
              /\ m_pos' = reshape_memory(pos, num_blocks, block_length, radius,
                                         fully_autoregressive)
              /\ UNCHANGED <<padded_memory_block_length, visible, bias, o>>
  /\ UNCHANGED <<argVars, searchVars, paramVars>>

\* lines 465-478: the visibility mask
BuildMask ==
  /\ pc = "reshaped"
  /\ padded_memory_block_length' =
       PaddedLength(block_length, radius, fully_autoregressive)
  /\ IF read_priority.given /\ ~write_priority.given
     THEN /\ pc' = "error"
          /\ UNCHANGED visible
     ELSE LET wp == IF read_priority.given
                    THEN reshape_memory(write_priority.val, num_blocks,
                                        block_length, radius,
                                        fully_autoregressive)
                    ELSE NoTensor
              rp == IF read_priority.given
                    THEN reshape_query(read_priority.val, num_blocks,
                                       block_length)
                    ELSE NoTensor
          IN  /\ visible' =
                   [b \in 1..num_blocks |->
                     [i \in 1..block_length |->
                       [j \in 1..Len(m_pos[b]) |->
                          /\ q_sequence_id[b][i] = m_sequence_id[b][j]
                          /\ WithinWindow(m_pos[b][j] - q_pos[b][i], radius,
                                          fully_autoregressive)
                          /\ (read_priority.given =>
                                PriorityAllows(rp[b][i], wp[b][j]))]]]
              /\ pc' = "masked"
  /\ UNCHANGED <<argVars, searchVars, paramVars, q_pos, m_pos, q_sequence_id,
                 m_sequence_id, k, bias, o>>

\* lines 480-483: bias, attention per block, output on the flat length axis
Attend ==
  /\ pc = "masked"
  /\ bias' = [b \in 1..num_blocks |->
               [i \in 1..block_length |->
                 [j \in 1..Len(visible[b][i]) |->
                    visibility_mask_to_attention_bias(visible[b][i][j])]]]
  /\ IF ~attention_kwargs \/ padded_memory_block_length # Len(k[1])
     THEN /\ pc' = "error"
          /\ UNCHANGED o
     ELSE /\ pc' = "done"
          /\ o' = merge_dimensions(
                    [b \in 1..num_blocks |->
                      [i \in 1..block_length |->
                        {k[b][j] : j \in {j0 \in 1..Len(k[b]) :
                                            bias'[b][i][j0] = 0}}]],
                    num_blocks, block_length)
  /\ UNCHANGED <<argVars, searchVars, paramVars, q_pos, m_pos, q_sequence_id,
                 m_sequence_id, k, padded_memory_block_length, visible>>

Next == BlockPartition \/ ReshapeInputs \/ BuildMask \/ Attend

Spec == Init /\ [][Next]_vars

(* ---------------- the block-length search, step by step ---------------- *)
SearchLengths == (1..MaxSearchLen) \cup {1000, 1024}
SearchRadii == (0..MaxRadius) \cup {128, 200}

SearchInit ==
  /\ pc = "enter"
  /\ length \in SearchLengths
  /\ length_dim_num_splits \in 1..MaxSplits
  /\ radius \in SearchRadii
  /\ fully_autoregressive = TRUE
  /\ attention_kwargs = TRUE
  /\ sequence_id = [kind |-> "none", val |-> NoTensor]
  /\ write_priority = NoPriority
  /\ read_priority = NoPriority
  /\ LocalsInit
  /\ ParamsIdle

\* lines 430-431
SearchEnter ==
  /\ pc = "enter"
  /\ length_per_split' = length \div length_dim_num_splits
  /\ block_length' = InitialBlockLength(radius)
  /\ pc' = "loop"
  /\ UNCHANGED <<argVars, num_blocks, tensorVars, paramVars>>

\* lines 432-433: one iteration of the while loop; the modulo raises on a
\* zero divisor
SearchStep ==
  /\ pc = "loop"
  /\ IF block_length = 0
     THEN /\ pc' = "error"
          /\ UNCHANGED block_length
     ELSE /\ SearchContinues(length_per_split, block_length)
          /\ block_length' = block_length - 1
          /\ pc' = "loop"
  /\ UNCHANGED <<argVars, length_per_split, num_blocks, tensorVars, paramVars>>

\* lines 432, 434-438: the loop exits and the block axes are built
SearchExit ==
  /\ pc = "loop"
  /\ block_length # 0
  /\ ~SearchContinues(length_per_split, block_length)
  /\ num_blocks' = NumBlocks(length, length_per_split, block_length)
  /\ pc' = "found"
  /\ UNCHANGED <<argVars, length_per_split, block_length, tensorVars,
                 paramVars>>

SearchNext == SearchEnter \/ SearchStep \/ SearchExit

SearchSpec == SearchInit /\ [][SearchNext]_vars /\ WF_vars(SearchNext)

(* --------------------------- AttentionParams --------------------------- *)
MaxDimSize == 2

\* a named axis; two axes are equal iff name and size match
Dim(n, sz) == [name |-> n, size |-> sz]

RECURSIVE ShapeSize(_)
\* mtf.Shape(dims).size
ShapeSize(dims) ==
  IF dims = <<>> THEN 1 ELSE Head(dims).size * ShapeSize(Tail(dims))

\* _combined_dim
combined_dim(dims) == Dim(dims[1].name, ShapeSize(dims))

InShape(d, shape) == \E n \in 1..Len(shape) : shape[n] = d

RECURSIVE Without(_, _)
\* shape - dims, order kept
Without(shape, dims) ==
  IF shape = <<>> THEN <<>>
  ELSE IF InShape(Head(shape), dims) THEN Without(Tail(shape), dims)
       ELSE <<Head(shape)>> \o Without(Tail(shape), dims)

RECURSIVE Distinct(_)
\* the axes of a list, each kept at its first occurrence
Distinct(shape) ==
  IF shape = <<>> THEN <<>>
  ELSE <<Head(shape)>> \o Distinct(Without(Tail(shape), <<Head(shape)>>))

\* einsum([x, w], reduced_dims=...) with no output_shape: every input axis
\* that is not reduced, in order of first appearance
einsum(x, w, reduced_dims) == Without(Distinct(x \o w), reduced_dims)

\* the properties q_dims, k_dims, v_dims, o_dims
q_dims(a) == a.query_heads_dims \o <<a.key_dim>>
k_dims(a) == a.memory_heads_dims \o <<a.key_dim>>
v_dims(a) == a.memory_heads_dims \o <<a.value_dim>>
o_dims(a) == a.query_heads_dims \o <<a.value_dim>>

SharedKvInvalid_any_mode(shared_kv, key_dim, value_dim) ==
  key_dim # value_dim

\* if shared_kv and key_dim != value_dim: raise ValueError
SharedKvInvalid(shared_kv, key_dim, value_dim) ==
  shared_kv /\ key_dim # value_dim

EnsemblePrefix(a) == IF a.ensemble THEN <<Dim("ensemble", 2)>> ELSE <<>>

\* lines 200-209 and 222-238: the weights created by the constructor
CreatedWeights(a) ==
  LET q_shape == IF a.combine_dims
                 THEN <<a.query_input_dim, combined_dim(q_dims(a))>>
                 ELSE <<a.query_input_dim>> \o q_dims(a)
      k_shape == IF a.combine_dims
                 THEN <<a.memory_input_dim, combined_dim(k_dims(a))>>
                 ELSE <<a.memory_input_dim>> \o k_dims(a)
      v_shape == IF a.combine_dims
                 THEN <<a.memory_input_dim, combined_dim(v_dims(a))>>
                 ELSE <<a.memory_input_dim>> \o v_dims(a)
      o_shape == IF a.combine_dims
                 THEN <<combined_dim(o_dims(a)), a.output_dim>>
                 ELSE o_dims(a) \o <<a.output_dim>>
      W(n, shape) == [name |-> n, shape |-> EnsemblePrefix(a) \o shape]
  IN  {W("wq", q_shape), W("wo", o_shape)}
        \cup (IF a.shared_kv THEN {W("wkv", k_shape)}
              ELSE {W("wk", k_shape), W("wv", v_shape)})

HasWeight(w) == \E x \in params.weights : x.name = w
Weight(w) == (CHOOSE x \in params.weights : x.name = w).shape

ComputeKvRejected_never(shared_kv) == FALSE

\* if not self.shared_kv: raise ValueError   (compute_kv)
ComputeKvRejected(shared_kv) == ~shared_kv

\* if self.shared_kv: raise ValueError       (compute_k, compute_v)
ComputeKRejected(shared_kv) == shared_kv

\* the axes other than the contracted ones that the inputs carry
OtherDims(a) == EnsemblePrefix(a) \o <<Dim("batch", 2), Dim("length", 2)>>

HeadsArgs ==
  {<<>>} \cup {<<Dim("heads", h)>> : h \in 1..MaxDimSize}
         \cup {<<Dim("heads", h), Dim("groups", 2)>> : h \in 1..MaxDimSize}

ConstructorArgs ==
  [query_input_dim : {Dim("d_model", 2)},
   memory_input_dim : {Dim("d_model", 2)},
   output_dim : {Dim("d_model", 2)},
   key_dim : {Dim(n, sz) : n \in {"d_kv", "d_k"}, sz \in 1..MaxDimSize},
   value_dim : {Dim(n, sz) : n \in {"d_kv", "d_v"}, sz \in 1..MaxDimSize},
   query_heads_dims : HeadsArgs,
   memory_heads_dims : {<<>>},
   shared_kv : BOOLEAN,
   combine_dims : BOOLEAN,
   ensemble : BOOLEAN,
   keep_query_heads_dims : BOOLEAN]

NoCall == [op |-> "none", ok |-> TRUE, error |-> "none", read |-> {},
           shape |-> <<>>]

ParamsInit ==
  /\ pc = "new"
  /\ \E a \in ConstructorArgs :
       \E mh \in {<<>>, a.query_heads_dims} :
         params = [args |-> [a EXCEPT !.memory_heads_dims = mh],
                   constructed |-> FALSE, weights |-> {}]
  /\ last = NoCall
  /\ length = 0
  /\ length_dim_num_splits = 1
  /\ radius = 0
  /\ fully_autoregressive = TRUE
  /\ attention_kwargs = TRUE
  /\ sequence_id = [kind |-> "none", val |-> NoTensor]
  /\ write_priority = NoPriority
  /\ read_priority = NoPriority
  /\ LocalsInit

Raised(name, kind) ==
  [op |-> name, ok |-> FALSE, error |-> kind, read |-> {}, shape |-> <<>>]

Returned(name, weights, shape) ==
  [op |-> name, ok |-> TRUE, error |-> "none", read |-> weights,
   shape |-> shape]

\* AttentionParams.__init__
Construct ==
  /\ pc = "new"
  /\ LET a == params.args
     IN  IF SharedKvInvalid(a.shared_kv, a.key_dim, a.value_dim)
         THEN /\ last' = Raised("init", "ValueError")
              /\ pc' = "failed"
              /\ UNCHANGED params
         ELSE /\ last' = Returned("init", {}, <<>>)
              /\ pc' = "ready"
              /\ params' = [params EXCEPT !.constructed = TRUE,
                                          !.weights = CreatedWeights(a)]
  /\ UNCHANGED <<argVars, searchVars, tensorVars>>

\* the projection shared by compute_q, compute_kv, compute_k, compute_v:
\* contract the input axis against weight w, then split a fused axis
Project(name, w, input_dim, dims) ==
  IF ~HasWeight(w) THEN Raised(name, "AttributeError")
  ELSE LET x == <<input_dim>> \o OtherDims(params.args)
           ret == einsum(x, Weight(w), <<input_dim>>)
       IN  Returned(name, {w},
                    IF params.args.combine_dims
                    THEN SubSeq(ret, 1, Len(ret) - 1) \o dims
                    ELSE ret)

compute_q ==
  /\ pc = "ready"
  /\ last' = Project("compute_q", "wq", params.args.query_input_dim,
                     q_dims(params.args))
  /\ UNCHANGED <<pc, params, argVars, searchVars, tensorVars>>

compute_kv ==
  /\ pc = "ready"
  /\ last' = IF ComputeKvRejected(params.args.shared_kv)
             THEN Raised("compute_kv", "ValueError")
             ELSE Project("compute_kv", "wkv", params.args.memory_input_dim,
                          k_dims(params.args))
  /\ UNCHANGED <<pc, params, argVars, searchVars, tensorVars>>

compute_k ==
  /\ pc = "ready"
  /\ last' = IF ComputeKRejected(params.args.shared_kv)
             THEN Raised("compute_k", "ValueError")
             ELSE Project("compute_k", "wk", params.args.memory_input_dim,
                          k_dims(params.args))
  /\ UNCHANGED <<pc, params, argVars, searchVars, tensorVars>>

compute_v ==
  /\ pc = "ready"
  /\ last' = IF ComputeKRejected(params.args.shared_kv)
             THEN Raised("compute_v", "ValueError")
             ELSE Project("compute_v", "wv", params.args.memory_input_dim,
                          v_dims(params.args))
  /\ UNCHANGED <<pc, params, argVars, searchVars, tensorVars>>

\* the axes reduced by compute_output (lines 321-329)
OutputReducedDims(a, wo) ==
  IF a.keep_query_heads_dims THEN <<a.value_dim>>
  ELSE IF a.combine_dims THEN <<wo[Len(wo) - 1]>>
  ELSE o_dims(a)

\* the shape returned by compute_output for o over o_dims + other_dims
OutputShape(a, wo) ==
  LET o_in == o_dims(a) \o OtherDims(a)
      o_t == Without(o_in, o_dims(a)) \o o_dims(a)
      o_c == IF a.combine_dims
             THEN SubSeq(o_t, 1, Len(o_t) - Len(o_dims(a)))
                    \o <<wo[Len(wo) - 1]>>
             ELSE o_in
  IN  einsum(o_c, wo, OutputReducedDims(a, wo))

compute_output ==
  /\ pc = "ready"
  /\ last' = Returned("compute_output", {"wo"},
                      OutputShape(params.args, Weight("wo")))
  /\ UNCHANGED <<pc, params, argVars, searchVars, tensorVars>>

ParamsNext ==
  Construct \/ compute_q \/ compute_kv \/ compute_k \/ compute_v
    \/ compute_output

ParamsSpec == ParamsInit /\ [][ParamsNext]_vars

(* ======================= properties of the code ======================== *)
\* the sequence id of every position, as the call resolves it
Sid == ResolveSequenceId(sequence_id, length)

\* query position (0-based) of offset i in block b
QueryPos(b, i) == (b - 1) * block_length + i - 1

\* block of query position p (0-based)
BlockOf(p) == (p \div block_length) + 1

\* slot j of memory block b holds the key of a real position
RealSlot(b, j) == k[b][j] # 0

\* the real position held by slot j of memory block b
SlotPos(b, j) == k[b][j] - 1

\* upper end of the window of relative positions
UpperOffset == IF fully_autoregressive THEN 0 ELSE radius

MaskBuilt == visible # NoTensor

NoPriorities == ~read_priority.given /\ ~write_priority.given

BothPriorities == read_priority.given /\ write_priority.given

\* the real memory positions with zero bias for query position p
Contributors(p) == {t - 1 : t \in o[p + 1] \ {0}}

(* C1: with no priorities, a query position p and a real memory position m *)
(* held in p's haloed memory block are visible to each other iff they have *)
(* the same sequence id and -radius < m - p <= U, where U is 0 in causal   *)
(* mode and radius in bidirectional mode.                                  *)
C1_PositionWindow ==
  (MaskBuilt /\ NoPriorities) =>
    \A b \in 1..num_blocks : \A i \in 1..block_length :
      \A j \in 1..Len(k[b]) :
        RealSlot(b, j) =>
          LET p == QueryPos(b, i)
              m == SlotPos(b, j)
          IN  visible[b][i][j] <=>
                /\ Sid[p + 1] = Sid[m + 1]
                /\ 0 - radius < m - p
                /\ m - p <= UpperOffset

C1_Witness ==
  /\ pc = "masked"
  /\ NoPriorities
  /\ ~fully_autoregressive
  /\ radius = 2
  /\ num_blocks >= 2
  /\ \E b \in 1..num_blocks : \E i \in 1..block_length :
       \E j1, j2, j3 \in 1..Len(k[b]) :
         /\ RealSlot(b, j1) /\ RealSlot(b, j2) /\ RealSlot(b, j3)
         /\ SlotPos(b, j1) = QueryPos(b, i) + 2 /\ visible[b][i][j1]
         /\ SlotPos(b, j2) = QueryPos(b, i) - 2 /\ ~visible[b][i][j2]
         /\ SlotPos(b, j3) = QueryPos(b, i) - 1
         /\ Sid[SlotPos(b, j3) + 1] # Sid[QueryPos(b, i) + 1]
         /\ ~visible[b][i][j3]

\* the call of the end-to-end example
ExampleCall ==
  /\ length = 8
  /\ radius = 2
  /\ fully_autoregressive
  /\ length_dim_num_splits = 1
  /\ sequence_id.kind = "none"
  /\ NoPriorities
  /\ pc = "done"
  /\ num_blocks = 1

(* C2 as stated: in the example call (length 8, radius 2, causal, one      *)
(* block, default sequence id, no priorities) the memory positions with    *)
(* zero bias for query position 5 are exactly 3, 4 and 5.                  *)
C2_Original == ExampleCall => (Contributors(5) = {3, 4, 5} /\ 0 \notin o[6])

(* C2 amended: in the example call the memory positions with zero bias for *)
(* query position 5 are exactly 4 and 5, the window (5 - 2, 5].            *)
C2_ExampleWindow == ExampleCall => (Contributors(5) = {4, 5} /\ 0 \notin o[6])

C2_Witness == ExampleCall /\ block_length = 8 /\ Contributors(5) = {4, 5}

\* every position is held by exactly one (block, offset) of the query view
ExactQueryPartition ==
  \A p \in 0..(length - 1) :
    Cardinality({bi \in (1..num_blocks) \X (1..block_length) :
                   q_pos[bi[1]][bi[2]] = p}) = 1

\* the block partition is exact, the query view holds every position once
\* and the output is back on the flat axis with one entry per position
ExactPartition ==
  /\ pc # "start" => num_blocks * block_length = length
  /\ pc = "partitioned" => ReshapeOk(range(length), num_blocks, block_length)
  /\ pc \in {"reshaped", "masked", "done"} => ExactQueryPartition
  /\ pc = "done" => Len(o) = length

(* C4 as stated: for every length L >= 1 and shard count 1 <= num_splits   *)
(* <= L, num_blocks * block_length = L, every position falls in exactly    *)
(* one (block, offset) pair of the query reshape and the final reshape     *)
(* restores exactly L positions.                                           *)
C4_Original ==
  (length >= 1 /\ length_dim_num_splits <= length) => ExactPartition

(* C4 amended: the same, for every length L >= 1 and every shard count     *)
(* num_splits >= 1 that divides L.                                         *)
C4_ExactPartition ==
  (length >= 1 /\ length % length_dim_num_splits = 0) => ExactPartition

C4_Witness ==
  /\ pc = "done"
  /\ length = 6
  /\ length_dim_num_splits = 3
  /\ num_blocks = 3
  /\ block_length = 2
  /\ Len(o) = 6

(* C5: with both priorities supplied, a query position p and a real memory *)
(* position m of its haloed block are visible iff read_priority[p] >=      *)
(* write_priority[m] and the sequence-id and window conditions hold; so a  *)
(* pair with read_priority[p] < write_priority[m] is never visible.        *)
C5_PriorityMask ==
  (MaskBuilt /\ BothPriorities) =>
    \A b \in 1..num_blocks : \A i \in 1..block_length :
      \A j \in 1..Len(k[b]) :
        RealSlot(b, j) =>
          LET p == QueryPos(b, i)
              m == SlotPos(b, j)
          IN  visible[b][i][j] <=>
                /\ read_priority.val[p + 1] >= write_priority.val[m + 1]
                /\ Sid[p + 1] = Sid[m + 1]
                /\ 0 - radius < m - p
                /\ m - p <= UpperOffset

C5_Witness ==
  /\ pc = "masked"
  /\ BothPriorities
  /\ \E b \in 1..num_blocks : \E i \in 1..block_length :
       \E j1, j2 \in 1..Len(k[b]) :
         /\ RealSlot(b, j1) /\ RealSlot(b, j2)
         /\ SlotPos(b, j1) = QueryPos(b, i) - 1
         /\ Sid[SlotPos(b, j1) + 1] = Sid[QueryPos(b, i) + 1]
         /\ WithinWindow(-1, radius, fully_autoregressive)
         /\ read_priority.val[QueryPos(b, i) + 1]
              < write_priority.val[SlotPos(b, j1) + 1]
         /\ ~visible[b][i][j1]
         /\ SlotPos(b, j2) = QueryPos(b, i)
         /\ read_priority.val[QueryPos(b, i) + 1]
              = write_priority.val[SlotPos(b, j2) + 1]
         /\ visible[b][i][j2]

\* the real positions of the window of query position p
Window(p) ==
  {m \in 0..(length - 1) : 0 - radius < m - p /\ m - p <= UpperOffset}

(* C9: with radius >= 1, every real position in the window of a query      *)
(* position p occupies exactly one slot of the haloed memory block of p's  *)
(* block, and the padded memory axis has block_length + radius slots       *)
(* (causal) or block_length + 2 * radius slots (bidirectional), the length *)
(* of the haloed key, position and sequence-id tensors.                    *)
C9_HaloCoverage ==
  (radius >= 1 /\ k # NoTensor) =>
    /\ \A p \in 0..(length - 1) : \A m \in Window(p) :
         Cardinality({j \in 1..Len(k[BlockOf(p)]) :
                        k[BlockOf(p)][j] = m + 1}) = 1
    /\ MaskBuilt =>
         /\ padded_memory_block_length =
              block_length + (IF fully_autoregressive THEN 1 ELSE 2) * radius
         /\ \A b \in 1..num_blocks :
              /\ Len(k[b]) = padded_memory_block_length
              /\ Len(m_pos[b]) = padded_memory_block_length
              /\ Len(m_sequence_id[b]) = padded_memory_block_length

C9_Witness ==
  /\ pc = "masked"
  /\ ~fully_autoregressive
  /\ num_blocks >= 3
  /\ radius > block_length
  /\ radius % block_length # 0
  /\ \E j \in 1..Len(k[2]) : k[2][j] = length
  /\ \E j \in 1..Len(k[2]) : k[2][j] = 1

(* C10: a slot of a haloed memory block that holds no real position is     *)
(* never visible: a slot is visible to query position p only if it holds a *)
(* real position m with sequence_id[m] = sequence_id[p].                   *)
C10_PaddingNeverVisible ==
  MaskBuilt =>
    \A b \in 1..num_blocks : \A i \in 1..block_length :
      \A j \in 1..Len(k[b]) :
        visible[b][i][j] =>
          /\ RealSlot(b, j)
          /\ Sid[SlotPos(b, j) + 1] = Sid[QueryPos(b, i) + 1]

\* the greatest starting candidate of the search
StartCandidate == Max(radius, MinStartBlock)

\* what the search may hold while it runs and when it has ended
SearchSafe ==
  /\ pc # "error"
  /\ pc = "loop" => (block_length >= 1 /\ block_length <= StartCandidate)
  /\ pc = "found" =>
       /\ block_length >= 1
       /\ block_length <= StartCandidate
       /\ length_per_split = length \div length_dim_num_splits
       /\ length_per_split % block_length = 0
       /\ \A d \in (block_length + 1)..StartCandidate :
            length_per_split % d # 0
       /\ (length = 1024 /\ length_dim_num_splits = 1 /\ radius = 128)
            => block_length = 128
       /\ (length = 1000 /\ length_dim_num_splits = 1 /\ radius = 128)
            => block_length = 125

(* C3: for every length >= 1, shard count >= 1 and radius >= 0 the search  *)
(* from max(radius, 128) downwards ends without an error, and its result   *)
(* is at least 1, at most max(radius, 128), divides length // num_splits   *)
(* and is the largest such divisor (1024 gives 128, 1000 gives 125).       *)
C3_BlockLengthSearch == []SearchSafe /\ <>(pc = "found")

C3_Witness ==
  /\ pc = "found"
  /\ length = 1000
  /\ length_dim_num_splits = 1
  /\ radius = 128
  /\ block_length = 125

\* the outcome of the constructor
ConstructorRan == last.op = "init"

(* C6 as stated: construction with shared_kv fails exactly when the sizes  *)
(* of the key and value axes differ, never fails without shared_kv, and a  *)
(* failed construction has created no weight.                              *)
C6_Original ==
  ConstructorRan =>
    /\ ~last.ok <=> (params.args.shared_kv /\
                       params.args.key_dim.size # params.args.value_dim.size)
    /\ ~last.ok => params.weights = {}

(* C6 amended: construction with shared_kv fails with a ValueError exactly *)
(* when the key axis and the value axis differ in name or in size, never   *)
(* fails without shared_kv, and a failed construction has created no       *)
(* weight.                                                                 *)
C6_ConstructionValidation ==
  ConstructorRan =>
    /\ ~last.ok <=> (params.args.shared_kv /\
                       (params.args.key_dim.name # params.args.value_dim.name
                        \/ params.args.key_dim.size
                             # params.args.value_dim.size))
    /\ ~last.ok => (last.error = "ValueError" /\ params.weights = {}
                    /\ ~params.constructed)
    /\ ~params.args.shared_kv => last.ok

C6_Witness ==
  /\ ConstructorRan
  /\ ~last.ok
  /\ params.args.shared_kv
  /\ params.args.key_dim.size = params.args.value_dim.size
  /\ params.args.key_dim.name # params.args.value_dim.name
  /\ params.weights = {}

\* the weight an accessor reads
AccessorWeight(op) ==
  IF op = "compute_kv" THEN "wkv" ELSE IF op = "compute_k" THEN "wk" ELSE "wv"

\* one call on a constructed instance, as C7 describes it
AccessorContract ==
  pc = "ready" =>
    /\ params' = params
    /\ pc' = "ready"
    /\ last'.op \in {"compute_kv", "compute_k", "compute_v"} =>
         /\ last'.ok <=> (params.args.shared_kv <=> last'.op = "compute_kv")
         /\ ~last'.ok => (last'.error = "ValueError" /\ last'.read = {})
         /\ last'.ok =>
              /\ last'.read = {AccessorWeight(last'.op)}
              /\ \A w \in last'.read : \E x \in params.weights : x.name = w

(* C7: on a constructed instance, after any sequence of accessor calls,    *)
(* compute_kv succeeds iff shared_kv, compute_k and compute_v succeed iff  *)
(* not shared_kv; a disallowed call raises the configuration-mismatch      *)
(* error without reading a weight and leaves the instance unchanged; an    *)
(* allowed call reads a weight created by the constructor.                 *)
C7_AccessorValidity == [][AccessorContract]_vars

C7_Witness ==
  /\ pc = "ready"
  /\ params.args.shared_kv
  /\ last.op = "compute_k"
  /\ ~last.ok
  /\ \E x \in params.weights : x.name = "wkv"

(* C8: for both settings of combine_dims the result of compute_output has  *)
(* the output axis and no value axis; without keep_query_heads_dims it has *)
(* no query head axis, with keep_query_heads_dims it has every query head  *)
(* axis with its name and size.                                            *)
C8_OutputAxes ==
  last.op = "compute_output" =>
    LET a == params.args
    IN  /\ InShape(a.output_dim, last.shape)
        /\ ~InShape(a.value_dim, last.shape)
        /\ \A n \in 1..Len(a.query_heads_dims) :
             InShape(a.query_heads_dims[n], last.shape)
               <=> a.keep_query_heads_dims

====
